---- MODULE Spec2Model ----
(***************************************************************************)
(* The two notebooks of the repository as one state machine.               *)
(*                                                                         *)
(*   Vim2.ipynb                  check_cuda, create_scheduler_dict,        *)
(*                               load_pipeline, set_scheduler,             *)
(*                               generate_image, example_upscaler_func     *)
(*   Noobai-XL-1.1_Generator     cells 3 (load), 4 (set_seed,              *)
(*                               generate_image), 5 (hires_fix), 6 (user   *)
(*                               inputs), 7 (generate, hires, show),       *)
(*                               8 (save)                                  *)
(*                                                                         *)
(* A behaviour is one kernel session of one notebook (nb).  The diffusers  *)
(* pipeline, torch's random generators and PIL's resize are external; they *)
(* are modelled by what the notebooks hand to them and read back:          *)
(*   - an image is a record of its size, of every value the pipeline       *)
(*     received when it produced it (the scheduler in place and the noise  *)
(*     source included) and of the resizes applied to it since;            *)
(*   - a random generator is its device, its seed and the number of draws  *)
(*     made from it; seed -1 is the unseeded generator of a fresh kernel;  *)
(*   - a float is a pair <<numerator, denominator>> (hires_scale, scale)   *)
(*     or a number of tenths (guidance_scale); int() of a product is its   *)
(*     truncation, which is what the float product gives for the values    *)
(*     explored (a whole number, or a fraction far from one).              *)
(***************************************************************************)
EXTENDS Integers, Sequences, FiniteSets, TLC

VARIABLES
    nb,          \* the notebook this kernel runs: "Vim2" or "Noobai"
    cuda,        \* torch.cuda.is_available()
    pc,          \* the position reached in the notebook
    printed,     \* what check_cuda printed
    SCHEDULERS,  \* Vim2: the module-level dictionary of schedulers
    pipe,        \* the module-level pipeline object
    device,      \* the device the load step moves the pipeline to
    requested,   \* Vim2: the scheduler_name of the latest set_scheduler call
    rng,         \* torch's global random generator
    inputs,      \* Noobai: the globals cell 6 assigns
    image,       \* Noobai: the global image
    shown,       \* Noobai: what image.show() displayed
    saved,       \* Noobai: what image.save() wrote
    ncalls,      \* generate_image calls made so far
    trace,       \* the steps of the start-up, then of the current generation
    last,        \* the most recent generate_image call and its result
    ref          \* one generate_image call earlier than last, remembered

vars == <<nb, cuda, pc, printed, SCHEDULERS, pipe, device, requested, rng,
          inputs, image, shown, saved, ncalls, trace, last, ref>>

\* ------------------------------------------------------------------ bounds

\* generate_image calls per kernel session
MaxCalls == 3

\* ------------------------------------------------------------ input values

None == "None"

Prompts == {"A futuristic city skyline at sunset", "A portrait of a cat"}
NegativePrompts == {None, "blurry, low quality"}
StepCounts == {30, 25}
Seeds == {0, 42}
\* guidance_scale in tenths: 7.5 and 8.0
GuidanceScales == {75, 80}
\* <<width, height>>
Sizes == {<<512, 512>>, <<768, 512>>}
\* hires_scale / scale as <<numerator, denominator>>: 1, 1.3, 2
Scales == {<<1, 1>>, <<13, 10>>, <<2, 1>>}
SchedulerNames == {"euler", "euler_ancestral", "dpm", "ddim"}
RequestedNames == SchedulerNames \cup {"heun"}
UpscalerFuncs == {None, "example_upscaler_func"}

\* --------------------------------------------------------- external library

\* int(x) of Python for the float n/d: truncation toward zero
PyInt(n, d) == IF n >= 0 THEN n \div d ELSE -((-n) \div d)

\* a random generator: the device it lives on, its seed, the draws made from it
Generator(dev, seed) == [device |-> dev, seed |-> seed, draws |-> 0]

\* the generator after the pipeline drew its noise from it
Drawn(g) == [g EXCEPT !.draws = @ + 1]

\* torch's global generator in a fresh kernel, and "no generator passed"
Unseeded == [device |-> "global", seed |-> -1, draws |-> 0]
NoGenerator == [device |-> None, seed |-> -1, draws |-> 0]

NoPipe ==
    [loaded |-> FALSE, device |-> None, scheduler |-> None, model_max_length |-> 0]

\* StableDiffusion(XL)Pipeline.from_pretrained(model_id, ...): the weights on
\* the CPU, the scheduler of the model's own configuration, CLIP's token limit
from_pretrained ==
    [loaded |-> TRUE, device |-> "cpu", scheduler |-> "DefaultScheduler",
     model_max_length |-> 77]

\* pipe.to(dev)
To(p, dev) == [p EXCEPT !.device = dev]

\* PIL: image.resize((w, h), Image.LANCZOS)
Resize(img, size) ==
    [img EXCEPT !.size = size, !.resized = Append(@, size)]

NoImage ==
    [size |-> <<0, 0>>, prompt |-> None, negative_prompt |-> None,
     num_inference_steps |-> 0, guidance_scale |-> 0, scheduler |-> None,
     noise |-> NoGenerator, resized |-> <<>>]


\* pipe(...).images[0]: the image the pipeline makes of what it received, with
\* the scheduler in place, from the noise of the generator passed or, when
\* none is passed, of the global generator r
PipelineImage(p, kw, r) ==
    [size |-> <<kw.width, kw.height>>,
     prompt |-> kw.prompt,
     negative_prompt |-> kw.negative_prompt,
     num_inference_steps |-> kw.num_inference_steps,
     guidance_scale |-> kw.guidance_scale,
     scheduler |-> p.scheduler,
     noise |-> IF kw.generator = NoGenerator THEN r ELSE kw.generator,
     resized |-> <<>>]

\* the global generator after that call
PipelineRng(kw, r) == IF kw.generator = NoGenerator THEN Drawn(r) ELSE r

\* --------------------------------------------------------------- Vim2.ipynb

\* check_cuda(): what it prints
check_cuda(available) ==
    IF ~available THEN "WARNING: CUDA is not available" ELSE "CUDA is available"

\* create_scheduler_dict(): one scheduler object per name
create_scheduler_dict ==
    [n \in SchedulerNames |->
        CASE n = "euler" -> "EulerDiscreteScheduler"
          [] n = "euler_ancestral" -> "EulerAncestralDiscreteScheduler"
          [] n = "dpm" -> "DPMSolverMultistepScheduler"
          [] n = "ddim" -> "DDIMScheduler"]

\* set_scheduler without its fallback: an unknown name leaves the scheduler
set_scheduler_no_fallback(pipeline, scheduler_name) ==
    IF scheduler_name \in DOMAIN SCHEDULERS
    THEN [pipeline EXCEPT !.scheduler = SCHEDULERS[scheduler_name]]
    ELSE pipeline

\* set_scheduler(pipeline, scheduler_name): the pipeline afterwards
set_scheduler(pipeline, scheduler_name) ==
    IF scheduler_name \in DOMAIN SCHEDULERS
    THEN [pipeline EXCEPT !.scheduler = SCHEDULERS[scheduler_name]]
    ELSE [pipeline EXCEPT !.scheduler = SCHEDULERS["euler"]]

\* the device load_pipeline moves the pipeline to
LoadDevice == "cuda"

\* load_pipeline(model_id, scheduler_choice): the pipeline it returns
load_pipeline(scheduler_choice) ==
    set_scheduler([To(from_pretrained, LoadDevice) EXCEPT !.model_max_length = 1000000],
                  scheduler_choice)

\* example_upscaler_func reading image.size in the wrong order
example_upscaler_func_swapped(img, scale_factor) ==
    LET new_width == PyInt(img.size[2] * scale_factor[1], scale_factor[2])
        new_height == PyInt(img.size[1] * scale_factor[1], scale_factor[2])
    IN Resize(img, <<new_width, new_height>>)

\* example_upscaler_func(image, scale_factor)
example_upscaler_func(img, scale_factor) ==
    LET new_width == PyInt(img.size[1] * scale_factor[1], scale_factor[2])
        new_height == PyInt(img.size[2] * scale_factor[1], scale_factor[2])
    IN Resize(img, <<new_width, new_height>>)

\* upscaler_func(image, hires_scale) for the callables a caller passes
CallUpscaler(f, img, scale) ==
    CASE f = "example_upscaler_func" -> example_upscaler_func(img, scale)

\* the "hires fix" block without its hires_fix condition
VimHiresAlways(img, a) ==
    IF a.upscaler_func # None
    THEN [image |-> CallUpscaler(a.upscaler_func, img, a.hires_scale),
          steps |-> <<"upscaler_func">>]
    ELSE [image |-> Resize(img, <<PyInt(a.width * a.hires_scale[1], a.hires_scale[2]),
                                  PyInt(a.height * a.hires_scale[1], a.hires_scale[2])>>),
          steps |-> <<"resize">>]

\* generate_image, the "hires fix" block: the image it leaves and the steps
\* it took
VimHires(img, a) ==
    IF a.hires_fix
    THEN IF a.upscaler_func # None
         THEN [image |-> CallUpscaler(a.upscaler_func, img, a.hires_scale),
               steps |-> <<"upscaler_func">>]
         ELSE LET new_width == PyInt(a.width * a.hires_scale[1], a.hires_scale[2])
                  new_height == PyInt(a.height * a.hires_scale[1], a.hires_scale[2])
              IN [image |-> Resize(img, <<new_width, new_height>>),
                  steps |-> <<"resize">>]
    ELSE [image |-> img, steps |-> <<>>]

\* generate_image, the keyword arguments of the pipe(...) call
VimKwargs(a) ==
    [prompt |-> a.prompt,
     negative_prompt |-> a.negative_prompt,
     num_inference_steps |-> a.num_inference_steps,
     guidance_scale |-> a.guidance_scale,
     generator |-> Generator("cuda", a.seed),
     width |-> a.width,
     height |-> a.height]

\* generate_image(...) of Vim2 called with the arguments a while the globals
\* are p (pipe) and r (torch's generator): the globals afterwards, what the
\* pipeline received at each invocation, the image returned, the steps taken
vim_generate_image(a, p, r) ==
    LET p1 == set_scheduler(p, a.scheduler_name)
        kw == VimKwargs(a)
        img == PipelineImage(p1, kw, r)
        h == VimHires(img, a)
    IN [pipe |-> p1,
        rng |-> PipelineRng(kw, r),
        received |-> <<kw>>,
        raw |-> img,
        image |-> h.image,
        trace |-> <<"set_scheduler", "pipe">> \o h.steps]

\* the signature's defaults, with the first prompt
VimDefaults ==
    [prompt |-> "A futuristic city skyline at sunset", negative_prompt |-> None,
     scheduler_name |-> "euler", num_inference_steps |-> 30, seed |-> 0,
     guidance_scale |-> 75, width |-> 512, height |-> 512, hires_fix |-> FALSE,
     hires_scale |-> <<2, 1>>, upscaler_func |-> None]

\* the calls of generate_image explored: the defaults with one group of
\* arguments varied at a time
VimArgs ==
    {[VimDefaults EXCEPT !.prompt = p, !.negative_prompt = n] :
        p \in Prompts, n \in NegativePrompts}
    \cup
    {[VimDefaults EXCEPT !.num_inference_steps = s, !.guidance_scale = g] :
        s \in StepCounts, g \in GuidanceScales}
    \cup
    {[VimDefaults EXCEPT !.scheduler_name = sn, !.seed = sd] :
        sn \in RequestedNames, sd \in Seeds}
    \cup
    {[VimDefaults EXCEPT !.width = sz[1], !.height = sz[2], !.hires_fix = hf,
                         !.hires_scale = sc, !.upscaler_func = f] :
        sz \in Sizes, hf \in BOOLEAN, sc \in Scales, f \in UpscalerFuncs}

\* ---------------------------------------------- Noobai-XL-1.1_Generator.ipynb

\* cell 3 moving the pipeline to "cuda" whatever is available
noobai_device_always_cuda(available) == "cuda"

\* cell 3: device = "cuda" if torch.cuda.is_available() else "cpu"
noobai_device(available) == IF available THEN "cuda" ELSE "cpu"

\* set_seed that seeds Python's and NumPy's generators but not torch's
set_seed_not_torch(seed) == rng

\* set_seed(seed): torch's global generator afterwards
set_seed(seed) == Generator("global", seed)

\* generate_image(prompt, steps, seed, guidance_scale, height, width) of the
\* Noobai notebook while the globals are p and r
noobai_generate_image(prompt, steps, seed, guidance_scale, height, width, p, r) ==
    LET r1 == set_seed(seed)
        kw == [prompt |-> prompt,
               negative_prompt |-> None,
               num_inference_steps |-> steps,
               guidance_scale |-> guidance_scale,
               generator |-> NoGenerator,
               width |-> width,
               height |-> height]
        img == PipelineImage(p, kw, r1)
    IN [pipe |-> p,
        rng |-> PipelineRng(kw, r1),
        received |-> <<kw>>,
        raw |-> img,
        image |-> img,
        trace |-> <<"pipe">>]

\* hires_fix unpacking image.size as height, width
hires_fix_swapped(img, scale) ==
    LET height == img.size[1]
        width == img.size[2]
    IN Resize(img, <<PyInt(width * scale[1], scale[2]),
                     PyInt(height * scale[1], scale[2])>>)

\* hires_fix(image, scale)
hires_fix(img, scale) ==
    LET width == img.size[1]
        height == img.size[2]
    IN Resize(img, <<PyInt(width * scale[1], scale[2]),
                     PyInt(height * scale[1], scale[2])>>)

\* cell 7 passing width before height
Cell7GenerateSwapped(in, p, r) ==
    noobai_generate_image(in.prompt, in.steps, in.seed, in.guidance_scale,
                          in.width, in.height, p, r)

\* cell 7: image = generate_image(prompt, steps, seed, guidance_scale, height, width)
Cell7Generate(in, p, r) ==
    noobai_generate_image(in.prompt, in.steps, in.seed, in.guidance_scale,
                          in.height, in.width, p, r)

\* cell 7: if apply_hires: image = hires_fix(image, scale)
Cell7Hires(img, in) ==
    IF in.apply_hires
    THEN [image |-> hires_fix(img, in.scale), steps |-> <<"hires_fix">>]
    ELSE [image |-> img, steps |-> <<>>]

\* cell 8 saving the image generate_image returned
Cell8SavedRaw == last.raw

\* cell 8: the image image.save(image_path) writes
Cell8Saved == image

\* cell 6 as written
NoobaiDefaults ==
    [prompt |-> "A futuristic city skyline at sunset", steps |-> 50, seed |-> 42,
     guidance_scale |-> 75, height |-> 512, width |-> 512, apply_hires |-> TRUE,
     scale |-> <<2, 1>>]

\* the values of cell 6 explored: cell 6 as written with one group of
\* variables modified at a time
NoobaiInputs ==
    {[NoobaiDefaults EXCEPT !.prompt = p, !.steps = s, !.guidance_scale = g] :
        p \in Prompts, s \in StepCounts, g \in GuidanceScales}
    \cup
    {[NoobaiDefaults EXCEPT !.seed = sd] : sd \in Seeds}
    \cup
    {[NoobaiDefaults EXCEPT !.width = sz[1], !.height = sz[2], !.apply_hires = ah,
                            !.scale = sc] :
        sz \in Sizes, ah \in BOOLEAN, sc \in Scales}

\* ------------------------------------------------------------ state machine

NoArgs == [prompt |-> None]

NoCall ==
    [called |-> FALSE, args |-> NoArgs, received |-> <<>>, raw |-> NoImage,
     image |-> NoImage, trace |-> <<>>]

\* a generate_image call as remembered: its arguments and all it did
Call(a, g, img, steps) ==
    [called |-> TRUE, args |-> a, received |-> g.received, raw |-> g.raw,
     image |-> img, trace |-> steps]

Init ==
    /\ nb \in {"Vim2", "Noobai"}
    /\ cuda \in BOOLEAN
    /\ pc = "start"
    /\ printed = None
    /\ SCHEDULERS = <<>>
    /\ pipe = NoPipe
    /\ device = None
    /\ requested = None
    /\ rng = Unseeded
    /\ inputs = NoArgs
    /\ image = NoImage
    /\ shown = NoImage
    /\ saved = NoImage
    /\ ncalls = 0
    /\ trace = <<>>
    /\ last = NoCall
    /\ ref = NoCall

\* Vim2: check_cuda()
CheckCuda ==
    /\ nb = "Vim2" /\ pc = "start"
    /\ printed' = check_cuda(cuda)
    /\ pc' = "checked"
    /\ UNCHANGED <<requested, nb, cuda, SCHEDULERS, pipe, device, rng, inputs,
                   image, shown, saved, ncalls, trace, last, ref>>

\* Vim2: SCHEDULERS = create_scheduler_dict(), which loads the weights into a
\* temporary pipeline (left on the CPU) to read the scheduler configuration
CreateSchedulerDict ==
    /\ nb = "Vim2" /\ pc = "checked"
    /\ SCHEDULERS' = create_scheduler_dict
    /\ trace' = Append(trace, "load")
    /\ pc' = "dict"
    /\ UNCHANGED <<requested, nb, cuda, printed, pipe, device, rng, inputs,
                   image, shown, saved, ncalls, last, ref>>

\* Vim2: pipe = load_pipeline(MODEL_ID, scheduler_choice="euler"); moving the
\* weights to a CUDA device raises when there is none, and the notebook stops
LoadPipeline ==
    /\ nb = "Vim2" /\ pc = "dict"
    /\ device' = LoadDevice
    /\ IF LoadDevice = "cuda" /\ ~cuda
       THEN /\ pc' = "failed"
            /\ trace' = Append(trace, "load")
            /\ UNCHANGED <<pipe, requested>>
       ELSE /\ pc' = "ready"
            /\ trace' = trace \o <<"load", "set_scheduler">>
            /\ pipe' = load_pipeline("euler")
            /\ requested' = "euler"
    /\ UNCHANGED <<nb, cuda, printed, SCHEDULERS, rng, inputs, image, shown,
                   saved, ncalls, last, ref>>

\* Vim2: a call set_scheduler(pipe, scheduler_name) from a later cell
SetScheduler ==
    /\ nb = "Vim2" /\ pc = "ready"
    /\ \E scheduler_name \in RequestedNames :
           /\ pipe' = set_scheduler(pipe, scheduler_name)
           /\ requested' = scheduler_name
    /\ UNCHANGED <<nb, cuda, pc, printed, SCHEDULERS, device, rng, inputs,
                   image, shown, saved, ncalls, trace, last, ref>>

\* the remembered call: kept, or replaced by the call before the one being made
Remember == ref' \in {ref, last}

\* Vim2: a call generate_image(...) from a later cell
GenerateImage ==
    /\ nb = "Vim2" /\ pc = "ready" /\ ncalls < MaxCalls
    /\ \E a \in VimArgs :
           LET g == vim_generate_image(a, pipe, rng)
           IN /\ pipe' = g.pipe
              /\ requested' = a.scheduler_name
              /\ rng' = g.rng
              /\ trace' = g.trace
              /\ last' = Call(a, g, g.image, g.trace)
    /\ Remember
    /\ ncalls' = ncalls + 1
    /\ UNCHANGED <<nb, cuda, pc, printed, SCHEDULERS, device, inputs, image,
                   shown, saved>>

\* Noobai, cell 3: load the pipeline and move it to the device chosen
Cell3 ==
    /\ nb = "Noobai" /\ pc = "start"
    /\ device' = noobai_device(cuda)
    /\ pipe' = To(from_pretrained, noobai_device(cuda))
    /\ trace' = <<"load">>
    /\ pc' = "loaded"
    /\ UNCHANGED <<requested, nb, cuda, printed, SCHEDULERS, rng, inputs,
                   image, shown, saved, ncalls, last, ref>>

\* Noobai, cell 6: the user's inputs (first run, or run again after cell 8)
Cell6 ==
    /\ nb = "Noobai" /\ pc \in {"loaded", "saved"} /\ ncalls < MaxCalls
    /\ inputs' \in NoobaiInputs
    /\ pc' = "inputs"
    /\ UNCHANGED <<requested, nb, cuda, printed, SCHEDULERS, pipe, device, rng,
                   image, shown, saved, ncalls, trace, last, ref>>

\* Noobai, cell 7: generate, apply the hires fix if enabled, display
Cell7 ==
    /\ nb = "Noobai" /\ pc = "inputs"
    /\ LET g == Cell7Generate(inputs, pipe, rng)
           h == Cell7Hires(g.image, inputs)
           steps == g.trace \o h.steps \o <<"show">>
       IN /\ pipe' = g.pipe
          /\ rng' = g.rng
          /\ image' = h.image
          /\ shown' = h.image
          /\ trace' = steps
          /\ last' = Call(inputs, g, h.image, steps)
    /\ Remember
    /\ ncalls' = ncalls + 1
    /\ pc' = "shown"
    /\ UNCHANGED <<requested, nb, cuda, printed, SCHEDULERS, device, inputs,
                   saved>>

\* Noobai, cell 8: save the image
Cell8 ==
    /\ nb = "Noobai" /\ pc = "shown"
    /\ saved' = Cell8Saved
    /\ trace' = Append(trace, "save")
    /\ pc' = "saved"
    /\ UNCHANGED <<requested, nb, cuda, printed, SCHEDULERS, pipe, device, rng,
                   inputs, image, shown, ncalls, last, ref>>

Next ==
    \/ CheckCuda
    \/ CreateSchedulerDict
    \/ LoadPipeline
    \/ SetScheduler
    \/ GenerateImage
    \/ Cell3
    \/ Cell6
    \/ Cell7
    \/ Cell8

Spec == Init /\ [][Next]_vars

\* ------------------------------------------------------------------ claims

Range(f) == {f[x] : x \in DOMAIN f}

Vim == nb = "Vim2"
Noobai == nb = "Noobai"

\* whether the latest call asked for the upscale, and with which scale
Hires == IF Vim THEN last.args.hires_fix ELSE last.args.apply_hires
Scale == IF Vim THEN last.args.hires_scale ELSE last.args.scale

\* C1: every generate_image call invokes the pipeline exactly once, and the
\* prompt, step count, guidance scale, width and height (in Vim2 also the
\* negative prompt) the pipeline receives are the caller's values for those
\* parameters; the image produced has the caller's width and height.
C1_ParametersForwarded ==
    last.called =>
        /\ Len(last.received) = 1
        /\ LET kw == last.received[1]
               a == last.args
           IN /\ kw.prompt = a.prompt
              /\ kw.guidance_scale = a.guidance_scale
              /\ kw.width = a.width
              /\ kw.height = a.height
              /\ last.raw.size = <<a.width, a.height>>
              /\ Vim => /\ kw.num_inference_steps = a.num_inference_steps
                        /\ kw.negative_prompt = a.negative_prompt
              /\ Noobai => kw.num_inference_steps = a.steps

\* C1 witness: the Noobai positional call made with a width other than the height
C1_Witness ==
    /\ Noobai /\ last.called
    /\ last.args.width # last.args.height
    /\ last.received[1].width = last.args.width

\* C2: once the dictionary exists SCHEDULERS holds its four entries unchanged,
\* and after load_pipeline and any calls of set_scheduler and generate_image
\* the pipeline's scheduler is the entry of the name requested last when that
\* name is one of the four, and the "euler" entry for any other name.
C2_SchedulerFallback ==
    /\ (Vim /\ pc \in {"dict", "ready", "failed"}) =>
           /\ DOMAIN SCHEDULERS = {"euler", "euler_ancestral", "dpm", "ddim"}
           /\ SCHEDULERS = create_scheduler_dict
    /\ (Vim /\ pc = "ready") =>
           /\ pipe.scheduler \in Range(SCHEDULERS)
           /\ pipe.scheduler =
                  IF requested \in {"euler", "euler_ancestral", "dpm", "ddim"}
                  THEN SCHEDULERS[requested]
                  ELSE SCHEDULERS["euler"]

\* C2 witness: an unknown name requested while another scheduler was in place
C2_Witness ==
    /\ Vim /\ pc = "ready"
    /\ requested = "heun"
    /\ last.called /\ last.args.scheduler_name = "ddim"
    /\ pipe.scheduler = "EulerDiscreteScheduler"

\* the place of a step in the pipeline of the specification
Rank(step) ==
    CASE step = "load" -> 1
      [] step = "set_scheduler" -> 2
      [] step = "pipe" -> 3
      [] step \in {"resize", "upscaler_func", "hires_fix"} -> 4
      [] step = "show" -> 5
      [] step = "save" -> 6

\* C3: the steps of the start-up and of every generation are taken in the
\* order load, select a sampler, run the pipeline, resize, display, save, and
\* every step of a generation at most once (only the start-up's load of the
\* weights repeats); the pipeline runs only once loaded; generate_image sets
\* the scheduler and then invokes the pipeline in Vim2; in the Noobai
\* notebook the image displayed and the image saved are the image after
\* hires_fix whenever apply_hires is set.
C3_LinearOrder ==
    /\ \A i, j \in DOMAIN trace :
           i < j => \/ Rank(trace[i]) < Rank(trace[j])
                    \/ trace[i] = "load" /\ trace[j] = "load"
    /\ last.called => \A i \in DOMAIN trace : trace[i] # "load"
    /\ (\E i \in DOMAIN trace : trace[i] = "pipe") => pipe.loaded
    /\ (Vim /\ last.called) =>
           /\ Len(trace) >= 2
           /\ trace[1] = "set_scheduler"
           /\ trace[2] = "pipe"
    /\ (Noobai /\ pc \in {"shown", "saved"}) =>
           /\ shown = image
           /\ last.args.apply_hires =>
                  /\ shown # last.raw
                  /\ shown = hires_fix(last.raw, last.args.scale)
    /\ (Noobai /\ pc = "saved") =>
           /\ saved = image
           /\ trace[Len(trace)] = "save"
           /\ last.args.apply_hires =>
                  /\ saved # last.raw
                  /\ saved = hires_fix(last.raw, last.args.scale)

\* C3 witness: a Noobai generation with the hires fix, displayed and saved
C3_Witness ==
    /\ Noobai /\ pc = "saved"
    /\ last.args.apply_hires
    /\ saved.size # last.raw.size
    /\ trace = <<"pipe", "hires_fix", "show", "save">>

UpscaleSteps == {i \in DOMAIN last.trace :
                    last.trace[i] \in {"resize", "upscaler_func", "hires_fix"}}

\* C4: without hires_fix / apply_hires the image returned is the pipeline's
\* output, no resize is made and upscaler_func is not called, whatever
\* hires_scale and upscaler_func are; with it exactly one upscale step is
\* applied to the pipeline's output: upscaler_func(image, hires_scale) when
\* one is given, the built-in resize otherwise.
C4_UpscaleOptional ==
    last.called =>
        IF ~Hires
        THEN /\ last.image = last.raw
             /\ last.image.resized = <<>>
             /\ UpscaleSteps = {}
        ELSE /\ Cardinality(UpscaleSteps) = 1
             /\ Len(last.image.resized) = 1
             /\ [last.image EXCEPT !.size = last.raw.size, !.resized = <<>>] = last.raw
             /\ Vim =>
                    \A i \in UpscaleSteps :
                        last.trace[i] = IF last.args.upscaler_func # None
                                        THEN "upscaler_func"
                                        ELSE "resize"
             /\ (Vim /\ last.args.upscaler_func # None) =>
                    last.image = CallUpscaler(last.args.upscaler_func, last.raw,
                                              last.args.hires_scale)

\* C4 witness: a Vim2 call without hires_fix that passes an upscaler and a scale
C4_Witness ==
    /\ Vim /\ last.called
    /\ ~last.args.hires_fix
    /\ last.args.upscaler_func = "example_upscaler_func"
    /\ last.args.hires_scale = <<13, 10>>
    /\ last.image.size = <<last.args.width, last.args.height>>

\* C5: a Vim2 call with hires_fix and example_upscaler_func returns the image
\* the same call with upscaler_func=None returns: the same dimensions, the
\* same resize of the same pipeline output.
C5_PlaceholderUpscaler ==
    (/\ Vim /\ last.called
     /\ last.args.hires_fix
     /\ last.args.upscaler_func = "example_upscaler_func") =>
        LET builtin == vim_generate_image([last.args EXCEPT !.upscaler_func = None],
                                          pipe, rng)
        IN /\ last.image.size = builtin.image.size
           /\ last.image = builtin.image
           /\ last.raw = builtin.raw

\* C5 witness: the placeholder applied to an image wider than high, scale 1.3
C5_Witness ==
    /\ Vim /\ last.called
    /\ last.args.hires_fix
    /\ last.args.upscaler_func = "example_upscaler_func"
    /\ last.args.width # last.args.height
    /\ last.args.hires_scale = <<13, 10>>
    /\ Len(last.image.resized) = 1

\* C6: two generate_image calls with identical arguments return identical
\* images, whatever calls were made before or between them.
C6_SeedReproducible ==
    (/\ ref.called /\ last.called
     /\ ref.args = last.args) =>
        ref.image = last.image

\* C6 witness: the third Noobai call of a session repeating the arguments of
\* a remembered earlier one, the global generator drawn from since
C6_Witness ==
    /\ Noobai /\ ncalls = 3
    /\ ref.called /\ last.called
    /\ ref.args = last.args
    /\ rng.draws > 0
    /\ pc = "shown"

\* C7: in the Noobai notebook different values of steps make the pipeline use
\* different sampler methods.
C7_StepsSelectSampler ==
    (/\ Noobai
     /\ ref.called /\ last.called
     /\ ref.args.steps # last.args.steps) =>
        ref.raw.scheduler # last.raw.scheduler

\* C8: the built-in resize leaves an image of width int(w * scale) and height
\* int(h * scale), w and h being the requested width and height in Vim2 and
\* the size of the pipeline's image in the Noobai notebook: the integers the
\* products truncate to, the products themselves for an integer scale, and
\* w and h for scale 1.
C8_UpscaledSize ==
    (/\ last.called /\ Hires
     /\ Vim => last.args.upscaler_func = None) =>
        LET w == IF Vim THEN last.args.width ELSE last.raw.size[1]
            h == IF Vim THEN last.args.height ELSE last.raw.size[2]
            num == Scale[1]
            den == Scale[2]
            nw == last.image.size[1]
            nh == last.image.size[2]
        IN /\ nw * den <= w * num /\ w * num < (nw + 1) * den
           /\ nh * den <= h * num /\ h * num < (nh + 1) * den
           /\ den = 1 => (nw = w * num /\ nh = h * num)
           /\ Scale = <<1, 1>> => last.image.size = <<w, h>>

\* C8 witness: hires_fix at scale 1.3 on an image whose sides differ and do not
\* scale to whole pixels
C8_Witness ==
    /\ Noobai /\ last.called
    /\ last.args.apply_hires
    /\ last.args.scale = <<13, 10>>
    /\ last.raw.size = <<768, 512>>
    /\ last.image.size = <<998, 665>>

\* C9: the Noobai notebook moves the pipeline to "cuda" exactly when CUDA is
\* available and to "cpu" otherwise; Vim2's check_cuda only prints (the
\* warning exactly when CUDA is unavailable), the next cell runs either way,
\* and load_pipeline and generate_image target "cuda" whatever was reported.
C9_DeviceConfiguration ==
    /\ (Noobai /\ pc # "start") =>
           /\ device = (IF cuda THEN "cuda" ELSE "cpu")
           /\ pipe.loaded /\ pipe.device = device
    /\ (Vim /\ pc # "start") =>
           printed = (IF cuda THEN "CUDA is available"
                      ELSE "WARNING: CUDA is not available")
    /\ (Vim /\ pc = "checked") =>
           /\ pipe = NoPipe /\ device = None /\ trace = <<>>
           /\ ENABLED CreateSchedulerDict
    /\ (Vim /\ pc = "dict") => ENABLED LoadPipeline
    /\ (Vim /\ pc \in {"ready", "failed"}) => device = "cuda"
    /\ (Vim /\ pc = "ready") => pipe.device = "cuda"
    /\ (Vim /\ last.called) => last.received[1].generator.device = "cuda"

\* C9 witness: Vim2 without CUDA, the warning printed, the load onto "cuda"
\* attempted
C9_Witness ==
    /\ Vim /\ ~cuda
    /\ printed = "WARNING: CUDA is not available"
    /\ device = "cuda"
    /\ pc = "failed"

====
